---- MODULE Spec2Model ----
(***************************************************************************)
(* Model of create_calibration_image (src/create_calibration_image.py):    *)
(* a black uint8 canvas of height x width on which a filled disk is        *)
(* stamped at every multiple of dot_spacing, then handed to the encoder.   *)
(* One call of the function is one behaviour; pc is the line the call is   *)
(* at.  Python's range() and numpy's indexing are modelled by what they    *)
(* do (empty ranges for a negative step, ValueError for a zero step,       *)
(* wrap-around for a negative index, IndexError past the end).             *)
(***************************************************************************)
EXTENDS Integers, FiniteSets, Sequences, TLC

VARIABLES
    width, height, dot_spacing, dot_radius,  \* the arguments of the call
    image,                                   \* the numpy array, NoImage before line 16
    pc,                                      \* the line the call is at
    y, x, dy, dx,                            \* the loop variables
    iy, ix, idy, idx,                        \* items already taken from each range
    raised,                                  \* the exception that ended the call
    encoded,                                 \* what img.save wrote, NoImage if nothing
    pending                                  \* dots not yet stamped (any-order stamping only)

vars == <<width, height, dot_spacing, dot_radius, image, pc, y, x, dy, dx,
          iy, ix, idy, idx, raised, encoded, pending>>

----------------------------------------------------------------------------
(* Bounds of the model *)

MaxDim == 5
MaxSpacing == 3
MaxRadius == 2
NegRange == 1
AnyMaxDots == 6

(* Program constants *)

White == 255
Uint8Mod == 256
MainWidth == 30
MainHeight == 30
DefaultDotSpacing == 100
DefaultDotRadius == 1

----------------------------------------------------------------------------
(* Python and numpy primitives the function uses *)

\* Faulty variant of RangeLen: the floor of the quotient, which drops the
\* last item when the step does not divide the length
RangeLenFloor(start, stop, step) ==
    IF step > 0 /\ start < stop THEN (stop - start) \div step
    ELSE IF step < 0 /\ start > stop THEN (start - stop) \div (-step)
    ELSE 0

\* len(range(start, stop, step)) for step # 0
RangeLen(start, stop, step) ==
    IF step > 0 /\ start < stop THEN ((stop - start - 1) \div step) + 1
    ELSE IF step < 0 /\ start > stop THEN ((start - stop - 1) \div (-step)) + 1
    ELSE 0

\* Faulty variant of RangeItem: the step is ignored
RangeItemNoStep(start, step, i) == start + i

\* range(start, stop, step)[i]
RangeItem(start, step, i) == start + i * step

NoImage == [shape |-> <<-1, -1>>, data |-> <<>>]

\* Faulty variant of Zeros: the two dimensions swapped
ZerosTransposed(h, w) ==
    [shape |-> <<w, h>>, data |-> [i \in 0..(w - 1) |-> [j \in 0..(h - 1) |-> 0]]]

\* np.zeros((h, w), dtype=np.uint8)
Zeros(h, w) ==
    [shape |-> <<h, w>>, data |-> [i \in 0..(h - 1) |-> [j \in 0..(w - 1) |-> 0]]]

\* numpy index normalisation along an axis of length n; -1 stands for IndexError
NormIndex(i, n) ==
    IF 0 <= i /\ i < n THEN i
    ELSE IF -n <= i /\ i < 0 THEN i + n
    ELSE -1

\* image[yy, xx] = v on a uint8 array
SetItem(img, yy, xx, v) ==
    LET i == NormIndex(yy, img.shape[1])
        j == NormIndex(xx, img.shape[2])
    IN  IF i < 0 \/ j < 0
        THEN [ok |-> FALSE, img |-> img]
        ELSE [ok |-> TRUE, img |-> [img EXCEPT !.data[i][j] = v % Uint8Mod]]

----------------------------------------------------------------------------
(* The body of the innermost loop, lines 24-28 *)

\* Faulty variant of InDisk: a strict comparison
InDiskStrict(ddx, ddy, r) == ddx * ddx + ddy * ddy < r * r

\* line 24
InDisk(ddx, ddy, r) == ddx * ddx + ddy * ddy <= r * r

\* Faulty variant of InBounds: the lower bounds forgotten
InBoundsNoLower(yy, xx, h, w) == yy < h /\ xx < w

\* line 27
InBounds(yy, xx, h, w) == 0 <= yy /\ yy < h /\ 0 <= xx /\ xx < w

\* Faulty variant of Body: the whole neighbourhood is painted, black outside
\* the disk
BodyTile(img, cy, cx, ddy, ddx, h, w, r) ==
    IF InBounds(cy + ddy, cx + ddx, h, w)
    THEN SetItem(img, cy + ddy, cx + ddx, IF InDisk(ddx, ddy, r) THEN White ELSE 0)
    ELSE [ok |-> TRUE, img |-> img]

\* lines 24-28
Body(img, cy, cx, ddy, ddx, h, w, r) ==
    IF InDisk(ddx, ddy, r)
    THEN IF InBounds(cy + ddy, cx + ddx, h, w)
         THEN SetItem(img, cy + ddy, cx + ddx, White)
         ELSE [ok |-> TRUE, img |-> img]
    ELSE [ok |-> TRUE, img |-> img]

----------------------------------------------------------------------------
(* The call, line by line *)

Inputs ==
    ((-NegRange)..MaxDim) \X ((-NegRange)..MaxDim)
        \X ((-NegRange)..MaxSpacing) \X ((-NegRange)..MaxRadius)

\* the call __main__ makes
MainInput == <<MainWidth, MainHeight, DefaultDotSpacing, DefaultDotRadius>>

Idle ==
    /\ image = NoImage
    /\ y = 0 /\ x = 0 /\ dy = 0 /\ dx = 0
    /\ iy = 0 /\ ix = 0 /\ idy = 0 /\ idx = 0
    /\ raised = "none"
    /\ encoded = NoImage

Init ==
    /\ \E in \in Inputs \cup {MainInput} :
          /\ width = in[1]
          /\ height = in[2]
          /\ dot_spacing = in[3]
          /\ dot_radius = in[4]
    /\ pc = "L16"
    /\ pending = {}
    /\ Idle

Raise(exc) ==
    /\ pc' = "raised"
    /\ raised' = exc

\* line 16: numpy refuses negative dimensions
Alloc ==
    /\ pc = "L16"
    /\ IF height < 0 \/ width < 0
       THEN /\ Raise("ValueError")
            /\ UNCHANGED image
       ELSE /\ image' = Zeros(height, width)
            /\ pc' = "L19"
            /\ UNCHANGED raised
    /\ UNCHANGED <<width, height, dot_spacing, dot_radius, y, x, dy, dx,
                   iy, ix, idy, idx, encoded, pending>>

\* line 19: range() refuses a zero step
ForY ==
    /\ pc = "L19"
    /\ IF dot_spacing = 0
       THEN /\ Raise("ValueError")
            /\ UNCHANGED <<y, iy, ix>>
       ELSE IF iy < RangeLen(0, height, dot_spacing)
       THEN /\ y' = RangeItem(0, dot_spacing, iy)
            /\ iy' = iy + 1
            /\ ix' = 0
            /\ pc' = "L20"
            /\ UNCHANGED raised
       ELSE /\ pc' = "L31"
            /\ UNCHANGED <<y, iy, ix, raised>>
    /\ UNCHANGED <<width, height, dot_spacing, dot_radius, image, x, dy, dx,
                   idy, idx, encoded, pending>>

\* line 20
ForX ==
    /\ pc = "L20"
    /\ IF ix < RangeLen(0, width, dot_spacing)
       THEN /\ x' = RangeItem(0, dot_spacing, ix)
            /\ ix' = ix + 1
            /\ idy' = 0
            /\ pc' = "L22"
       ELSE /\ pc' = "L19"
            /\ UNCHANGED <<x, ix, idy>>
    /\ UNCHANGED <<width, height, dot_spacing, dot_radius, image, y, dy, dx,
                   iy, idx, raised, encoded, pending>>

\* line 22
ForDy ==
    /\ pc = "L22"
    /\ IF idy < RangeLen(-dot_radius, dot_radius + 1, 1)
       THEN /\ dy' = RangeItem(-dot_radius, 1, idy)
            /\ idy' = idy + 1
            /\ idx' = 0
            /\ pc' = "L23"
       ELSE /\ pc' = "L20"
            /\ UNCHANGED <<dy, idy, idx>>
    /\ UNCHANGED <<width, height, dot_spacing, dot_radius, image, y, x, dx,
                   iy, ix, raised, encoded, pending>>

\* line 23
ForDx ==
    /\ pc = "L23"
    /\ IF idx < RangeLen(-dot_radius, dot_radius + 1, 1)
       THEN /\ dx' = RangeItem(-dot_radius, 1, idx)
            /\ idx' = idx + 1
            /\ pc' = "L24"
       ELSE /\ pc' = "L22"
            /\ UNCHANGED <<dx, idx>>
    /\ UNCHANGED <<width, height, dot_spacing, dot_radius, image, y, x, dy,
                   iy, ix, idy, raised, encoded, pending>>

\* lines 24-28
Paint ==
    /\ pc = "L24"
    /\ LET res == Body(image, y, x, dy, dx, height, width, dot_radius)
       IN  IF res.ok
           THEN /\ image' = res.img
                /\ pc' = "L23"
                /\ UNCHANGED raised
           ELSE /\ Raise("IndexError")
                /\ UNCHANGED image
    /\ UNCHANGED <<width, height, dot_spacing, dot_radius, y, x, dy, dx,
                   iy, ix, idy, idx, encoded, pending>>

\* lines 31-32: the encoder is a library; what it does with an empty canvas
\* is not decided by this code, so both outcomes are possible
Encode ==
    /\ pc = "L31"
    /\ \E accepted \in (IF width = 0 \/ height = 0 THEN BOOLEAN ELSE {TRUE}) :
          IF accepted
          THEN /\ encoded' = image
               /\ pc' = "done"
               /\ UNCHANGED raised
          ELSE /\ Raise("EncoderError")
               /\ UNCHANGED encoded
    /\ UNCHANGED <<width, height, dot_spacing, dot_radius, image, y, x, dy, dx,
                   iy, ix, idy, idx, pending>>

Next == Alloc \/ ForY \/ ForX \/ ForDy \/ ForDx \/ Paint \/ Encode

Spec == Init /\ [][Next]_vars

----------------------------------------------------------------------------
(* The same loops as a fold: lines 22-28 for one dot, lines 16-28 for all; *)
\* each returns [ok, img]: an exception in the body ends the loops at once
RECURSIVE StampFrom(_, _, _, _, _, _, _)
StampFrom(img, k, cy, cx, h, w, r) ==
    LET n == RangeLen(-r, r + 1, 1)
        res == Body(img, cy, cx, RangeItem(-r, 1, k \div n),
                    RangeItem(-r, 1, k % n), h, w, r)
    IN  IF k >= n * n THEN [ok |-> TRUE, img |-> img]
        ELSE IF res.ok THEN StampFrom(res.img, k + 1, cy, cx, h, w, r)
        ELSE res

StampDot(img, cy, cx, h, w, r) == StampFrom(img, 0, cy, cx, h, w, r)

RECURSIVE RasterFrom(_, _, _, _, _, _)
RasterFrom(img, k, h, w, s, r) ==
    LET ny == RangeLen(0, h, s)
        nx == RangeLen(0, w, s)
        res == StampDot(img, RangeItem(0, s, k \div nx),
                        RangeItem(0, s, k % nx), h, w, r)
    IN  IF k >= ny * nx THEN [ok |-> TRUE, img |-> img]
        ELSE IF res.ok THEN RasterFrom(res.img, k + 1, h, w, s, r)
        ELSE res

\* the canvas the row-major loops of lines 19-28 leave
Rasterize(h, w, s, r) == RasterFrom(Zeros(h, w), 0, h, w, s, r).img

\* the dot centres <<y, x>> the loops of lines 19-20 visit
GridDots(h, w, s) ==
    {<<RangeItem(0, s, i), RangeItem(0, s, j)>> :
        i \in 0..(RangeLen(0, h, s) - 1), j \in 0..(RangeLen(0, w, s) - 1)}

----------------------------------------------------------------------------
(* Stamping the dots of a valid call in any order *)

\* the valid calls that stamp at most AnyMaxDots dots
AnyInputs ==
    {in \in (1..MaxDim) \X (1..MaxDim) \X (1..MaxSpacing) \X (0..MaxRadius) :
        Cardinality(GridDots(in[2], in[1], in[3])) <= AnyMaxDots}

InitAny ==
    /\ \E in \in AnyInputs :
          /\ width = in[1]
          /\ height = in[2]
          /\ dot_spacing = in[3]
          /\ dot_radius = in[4]
    /\ pc = "any"
    /\ image = Zeros(height, width)
    /\ pending = GridDots(height, width, dot_spacing)
    /\ y = 0 /\ x = 0 /\ dy = 0 /\ dx = 0
    /\ iy = 0 /\ ix = 0 /\ idy = 0 /\ idx = 0
    /\ raised = "none"
    /\ encoded = NoImage

StampAny ==
    /\ pc = "any"
    /\ \E d \in pending :
          /\ image' = StampDot(image, d[1], d[2], height, width, dot_radius).img
          /\ pending' = pending \ {d}
          /\ y' = d[1]
          /\ x' = d[2]
    /\ UNCHANGED <<width, height, dot_spacing, dot_radius, pc, dy, dx,
                   iy, ix, idy, idx, raised, encoded>>

NextAny == StampAny

SpecAnyOrder == InitAny /\ [][NextAny]_vars

----------------------------------------------------------------------------
(* Vocabulary of the properties *)

Valid == width > 0 /\ height > 0 /\ dot_spacing > 0 /\ dot_radius >= 0

\* the loops of lines 19-28 have run to their end
Rasterized == pc \in {"L31", "done"}

IsMain == <<width, height, dot_spacing, dot_radius>> = MainInput

Canvas == (0..(width - 1)) \X (0..(height - 1))

\* the grid centres <<cx, cy>>: multiples of the spacing inside the canvas
Centers == {c \in Canvas : c[1] % dot_spacing = 0 /\ c[2] % dot_spacing = 0}

Sample(p) == image.data[p[2]][p[1]]

WhiteSamples == {p \in Canvas : Sample(p) = 255}

Covers(c, p) ==
    (p[1] - c[1]) * (p[1] - c[1]) + (p[2] - c[2]) * (p[2] - c[2])
        <= dot_radius * dot_radius

\* the index pairs of an array's samples
Cells(img) ==
    UNION {{<<i, j>> : j \in DOMAIN img.data[i]} : i \in DOMAIN img.data}

CeilDiv(a, b) == (a + b - 1) \div b

\* the first dot, the one at (0, 0), has just been stamped and no other yet
FirstDotDone == pc = "L20" /\ iy = 1 /\ ix = 1

\* The stepwise loops and their fold agree on the final canvas
StepwiseMatchesFold ==
    Rasterized => image = Rasterize(height, width, dot_spacing, dot_radius)

----------------------------------------------------------------------------
\* C1: for valid inputs, once the loops have completed a sample is 255 iff
\* it lies within the radius of some grid centre, and every other sample is 0.
DiskUnionCanvas ==
    (Valid /\ Rasterized) =>
        \A p \in Canvas :
            Sample(p) = IF \E c \in Centers : Covers(c, p) THEN 255 ELSE 0

DiskUnionWitness ==
    /\ Valid /\ pc = "done" /\ ~IsMain
    /\ dot_radius >= 1
    /\ Cardinality(Centers) >= 2
    /\ \E p \in Canvas : Sample(p) = 0
    /\ \E p \in Canvas : Sample(p) = 255 /\ p \notin Centers

\* C2: an invalid input is rejected instead of producing a canvas: the call
\* never runs its loops to the end, let alone reaches the encoder.
InvalidInputRejected ==
    ~Valid => (~Rasterized /\ encoded = NoImage)

\* C3: when the call fails on an invalid parameter, no canvas has been
\* allocated, no sample written and the encoder has not been invoked.
FailsBeforeCanvasWork ==
    (~Valid /\ pc = "raised") =>
        (image = NoImage /\ encoded = NoImage /\ raised # "EncoderError")

\* C4: stamping the grid dots of a valid call in any order leaves the canvas
\* the row-major loops leave.
AnyOrderSameCanvas ==
    (pc = "any" /\ pending = {}) =>
        image = Rasterize(height, width, dot_spacing, dot_radius)

AnyOrderWitness ==
    /\ pc = "any" /\ pending = {}
    /\ Cardinality(GridDots(height, width, dot_spacing)) >= 4
    /\ 2 * dot_radius >= dot_spacing /\ dot_radius >= 1
    /\ <<y, x>> = <<0, 0>>
    /\ \E p \in Canvas : Sample(p) = 0

\* C5: for valid inputs and any radius, once the loops have completed every
\* sample at a grid centre is 255.
DotCentersWhite ==
    (Valid /\ Rasterized) => \A c \in Centers : Sample(c) = 255

DotCentersWitness ==
    /\ Valid /\ pc = "done"
    /\ dot_radius = 0
    /\ Cardinality(Centers) >= 4
    /\ \A c \in Centers : Sample(c) = 255

\* C6: for radius 0 and valid inputs the white samples are exactly the grid
\* centres and there are ceil(width/spacing) * ceil(height/spacing) of them.
RadiusZeroGrid ==
    (Valid /\ Rasterized /\ dot_radius = 0) =>
        /\ WhiteSamples = Centers
        /\ Cardinality(WhiteSamples)
               = CeilDiv(width, dot_spacing) * CeilDiv(height, dot_spacing)

RadiusZeroWitness ==
    /\ Valid /\ pc = "done" /\ dot_radius = 0
    /\ width % dot_spacing # 0 /\ height % dot_spacing # 0
    /\ width > dot_spacing /\ height > dot_spacing
    /\ Cardinality(WhiteSamples) = 4

\* C7 as stated: the call of __main__ (30 x 30, spacing 100, radius 1) leaves
\* a disk of 5 white samples around (0, 0).
MainFiveSamples ==
    (IsMain /\ Rasterized) => Cardinality(WhiteSamples) = 5

\* C7 as amended: the call of __main__ leaves the disk of radius 1 around
\* (0, 0) clipped to the canvas: the 3 samples (0,0), (1,0), (0,1) are white
\* and every other sample is 0.
MainClippedDisk ==
    (IsMain /\ Rasterized) =>
        /\ WhiteSamples = {<<0, 0>>, <<1, 0>>, <<0, 1>>}
        /\ \A p \in Canvas \ WhiteSamples : Sample(p) = 0

MainClippedWitness ==
    IsMain /\ pc = "done" /\ Cardinality(WhiteSamples) = 3 /\ encoded = image

\* a step of the loop body that has a sample to set
WriteStep ==
    /\ pc = "L24"
    /\ dx * dx + dy * dy <= dot_radius * dot_radius
    /\ 0 <= y + dy /\ y + dy < height
    /\ 0 <= x + dx /\ x + dx < width

\* what a step may do to the canvas once it is allocated
WriteInBounds ==
    IF pc = "L16" THEN TRUE
    ELSE IF WriteStep
    THEN /\ image' = [image EXCEPT !.data[y + dy][x + dx] = 255]
         /\ raised' = "none"
    ELSE /\ image' = image
         /\ pc = "L24" => raised' = "none"

\* the canvas after the dot at (0, 0) with radius 2
QuarterDisk ==
    (Valid /\ FirstDotDone /\ dot_radius = 2) =>
        WhiteSamples = {p \in Canvas : p[1] * p[1] + p[2] * p[2] <= 4}

\* C8: every write targets the in-bounds coordinate (x + dx, y + dy) and
\* changes that sample alone; a disk sample outside the canvas changes
\* nothing and raises nothing (no wrap-around); and the dot at (0, 0) with
\* radius 2 paints exactly the in-bounds quarter of its disk.
ClippedWrites == [][WriteInBounds]_vars /\ []QuarterDisk

ClippedWritesWitness ==
    /\ Valid /\ FirstDotDone /\ dot_radius = 2
    /\ width >= 3 /\ height >= 3
    /\ Cardinality(WhiteSamples) = 6

\* C9: in every state of a valid call from the allocation on, the canvas has
\* the dimensions height x width, hence width * height samples, each 0 or
\* 255, and it starts all zero.
CanvasShape ==
    (Valid /\ pc # "L16") =>
        /\ image.shape = <<height, width>>
        /\ DOMAIN image.data = 0..(height - 1)
        /\ \A i \in DOMAIN image.data :
              /\ DOMAIN image.data[i] = 0..(width - 1)
              /\ \A j \in DOMAIN image.data[i] : image.data[i][j] \in {0, 255}
        /\ Cardinality(Cells(image)) = width * height
        /\ (pc = "L19" /\ iy = 0) => WhiteSamples = {}

CanvasShapeWitness ==
    /\ Valid /\ pc = "L24" /\ width # height
    /\ WhiteSamples # {}
    /\ \E p \in Canvas : Sample(p) = 0

\* C10: for valid inputs with 2 * radius < spacing, every white sample of the
\* result lies in the disk of exactly one grid centre.
SingleCover ==
    (Valid /\ Rasterized /\ 2 * dot_radius < dot_spacing) =>
        \A p \in WhiteSamples :
            Cardinality({c \in Centers : Covers(c, p)}) = 1

SingleCoverWitness ==
    /\ Valid /\ pc = "done" /\ ~IsMain
    /\ 2 * dot_radius < dot_spacing /\ dot_radius >= 1
    /\ Cardinality(Centers) >= 4
    /\ Cardinality(WhiteSamples) > Cardinality(Centers)

====
